---- MODULE Spec2Model ----
(***************************************************************************)
(* Webhook registry and signed event dispatch of the SRGG marketplace,     *)
(* src/src/app/api/webhooks/route.ts.                                      *)
(*                                                                         *)
(* The registry is the module-level array webhookStore of Webhook objects. *)
(* A JavaScript array holds references: dispatchWebhook keeps the objects  *)
(* its filter selected and mutates them after every await, also when the   *)
(* object has meanwhile been spliced out of the array. The model therefore *)
(* keeps the objects in heap (one entry per object ever allocated) and     *)
(* webhookStore as a sequence of references into heap.                     *)
(*                                                                         *)
(* Node runs every handler to its next await without interruption, so one  *)
(* action is one synchronous segment: a whole management handler, the      *)
(* start of a dispatch up to its first fetch, or the continuation of a     *)
(* dispatch from the settling of one fetch up to the next fetch.           *)
(***************************************************************************)
EXTENDS Integers, Sequences, FiniteSets, TLC

VARIABLES webhookStore, heap, now, dispatches, out

vars == <<webhookStore, heap, now, dispatches, out>>

(***************************************************************************)
(* Bounds of the model.                                                    *)
(***************************************************************************)
\* objects the POST handler may allocate in one behaviour
MaxWebhooks == 2
\* the same, where one endpoint is followed through many steps
FewWebhooks == 1
\* readings of Date.now() range over ClockStart .. ClockStart + MaxTicks
ClockStart == 35
MaxTicks == 1
\* dispatchWebhook calls that may be in flight (awaiting fetch) together
MaxDispatches == 2
\* failureCount is unbounded in the code; deliveries stop being started
\* for an endpoint whose counter has reached this cap
MaxFailures == 11

(***************************************************************************)
(* Program constants.                                                      *)
(***************************************************************************)
\* route.ts:285  if (webhook.failureCount >= 10)
DISABLE_THRESHOLD == 10
\* route.ts:123  crypto.randomBytes(24)
SECRET_BYTES == 24
\* route.ts:88, 189  w.secret.slice(0, 8)
MASK_PREFIX_LEN == 8
\* Number.prototype.toString(36), route.ts:126, 263
RADIX == 36

\* route.ts:22-43
WEBHOOK_EVENTS ==
  << "order.created", "order.confirmed", "order.shipped", "order.delivered",
     "order.completed", "order.cancelled", "payment.completed",
     "payment.failed", "payment.refunded", "listing.created",
     "listing.activated", "listing.sold", "token.minted",
     "token.transferred", "validation.completed", "insurance.activated",
     "insurance.claimed", "shipment.departed", "shipment.arrived",
     "iot.alert" >>

(***************************************************************************)
(* JavaScript values.                                                      *)
(***************************************************************************)
Range(s) == {s[i] : i \in DOMAIN s}

\* obj.k = v on a plain object: the key is added when it is missing
SetField(obj, k, v) == (k :> v) @@ obj

Has(obj, k) == k \in DOMAIN obj

\* Array.prototype.splice(index), without the count: removes to the end
Splice1ToEnd(s, index) == SubSeq(s, 1, index - 1)

\* Array.prototype.splice(index, 1)
Splice1(s, index) ==
  [j \in 1..(Len(s) - 1) |-> IF j < index THEN s[j] ELSE s[j + 1]]

Digits ==
  << "0", "1", "2", "3", "4", "5", "6", "7", "8", "9", "a", "b", "c", "d",
     "e", "f", "g", "h", "i", "j", "k", "l", "m", "n", "o", "p", "q", "r",
     "s", "t", "u", "v", "w", "x", "y", "z" >>

\* Number.prototype.toString(radix) of a non-negative integer, as characters
RECURSIVE ToStringRadix(_, _)
ToStringRadix(n, radix) ==
  IF n < radix THEN <<Digits[n + 1]>>
  ELSE ToStringRadix(n \div radix, radix) \o <<Digits[(n % radix) + 1]>>

\* Date.prototype.toISOString of the instant ms: one string per instant
ToISOString(ms) == <<"iso8601", ms>>

\* Buffer.prototype.toString('hex'): two lowercase hex digits per byte
ToHex(bytes) ==
  [k \in 1..(2 * Len(bytes)) |->
     IF k % 2 = 1 THEN Digits[(bytes[(k + 1) \div 2] \div 16) + 1]
     ELSE Digits[(bytes[k \div 2] % 16) + 1]]

\* String.prototype.slice(0, n)
Slice0(str, n) == SubSeq(str, 1, IF n < Len(str) THEN n ELSE Len(str))

\* a JSON value that is truthy and has no includes method (a number, true,
\* an object), as a request body may carry in place of an array
NotAnArray == <<"#json-number">>

\* the value has Array.prototype.includes
IsArray(v) == v # NotAnArray

\* JSON.stringify: one string per value
JsonStringify(v) == <<"json", v>>

\* crypto.createHmac('sha256', key).update(msg).digest('hex'), as an ideal
\* MAC: equal exactly when key and message are equal
HmacSha256Hex(key, msg) == <<"hmac-sha256", key, msg>>

(***************************************************************************)
(* Inputs the environment may supply.                                      *)
(***************************************************************************)
Tenants == {"T1", "T2"}

\* what verifyToken yields for the request's token; ok = FALSE is a request
\* with no token or one verifyToken rejects (getAuthUser returns null)
Callers ==
  { [ok |-> FALSE, role |-> "NONE", tenantId |-> "T1"],
    [ok |-> TRUE, role |-> "SUPER_ADMIN", tenantId |-> "T2"],
    [ok |-> TRUE, role |-> "TENANT_ADMIN", tenantId |-> "T1"],
    [ok |-> TRUE, role |-> "TENANT_ADMIN", tenantId |-> "T2"],
    [ok |-> TRUE, role |-> "BUYER", tenantId |-> "T1"] }

GoodUrl == "https://hooks.t1.example/in"
OtherUrl == "http://10.0.0.7:8080/cb"
BadUrl == "not a url"
RelativeUrl == "/hooks/in"

\* z.string().url(): the strings the URL parser accepts as absolute URLs
IsUrl(str) == str \in {GoodUrl, OtherUrl}

UnknownEvent == "order.exploded"

\* values crypto.randomBytes(n) may return
ByteSamples == {0, 171}
RandomBytes(n, byteSamples) == {[i \in 1..n |-> b] : b \in byteSamples}

\* JSON bodies sent to POST /api/webhooks
CreateBodies ==
  { [url |-> GoodUrl, events |-> <<"order.created">>],
    [url |-> GoodUrl, events |-> <<"payment.failed", "order.created">>,
     description |-> "primary"],
    [url |-> OtherUrl, events |-> <<"order.created">>, isActive |-> FALSE],
    [url |-> BadUrl, events |-> <<"order.created">>],
    [url |-> RelativeUrl, events |-> <<"order.created">>],
    [url |-> GoodUrl, events |-> <<>>],
    [url |-> GoodUrl, events |-> <<"order.created", UnknownEvent>>],
    [events |-> <<"order.created">>],
    [url |-> GoodUrl] }

\* the fields of a PATCH body besides webhookId
\* a body naming fields PATCH does not destructure
ForeignFields ==
  [id |-> <<"w", "h", "_", "?">>, tenantId |-> "T2",
   secret |-> <<"w", "h", "s", "e", "c", "_">>, createdAt |-> <<>>,
   failureCount |-> 0]

Patches ==
  { [isActive |-> TRUE],
    [isActive |-> FALSE],
    [events |-> <<"payment.failed">>],
    [events |-> <<>>],
    [events |-> <<UnknownEvent>>],
    [events |-> NotAnArray],
    [url |-> OtherUrl, description |-> "moved"],
    [url |-> BadUrl],
    [url |-> ""],
    ForeignFields }

\* event types passed to dispatchWebhook
DispatchEvents == {"order.created", "payment.failed", UnknownEvent}

Payloads == {[orderId |-> "o-1"]}

\* what a fetch settles with: a response with a status, or a rejection
FetchResults ==
  { [kind |-> "response", status |-> 200],
    [kind |-> "response", status |-> 299],
    [kind |-> "response", status |-> 300],
    [kind |-> "response", status |-> 500],
    [kind |-> "rejected"] }

\* line 270 taking every status below 400 as delivered
ResponseOkBelow400(status) == status >= 200 /\ status <= 399

\* Response.ok
ResponseOk(status) == status >= 200 /\ status <= 299

(***************************************************************************)
(* Responses of the management handlers (lib/api-response).                *)
(***************************************************************************)
Success(data, status) ==
  [kind |-> "response", status |-> status, success |-> TRUE, data |-> data]

Error(code, status) ==
  [kind |-> "response", status |-> status, success |-> FALSE, code |-> code]

BadRequest(message) ==
  [kind |-> "response", status |-> 400, success |-> FALSE,
   code |-> "BAD_REQUEST", message |-> message]

\* the role check every handler makes after getAuthUser
IsAnyRole(authResult) ==
  authResult.role \in {"SUPER_ADMIN", "TENANT_ADMIN", "BUYER"}

IsAdmin(authResult) == authResult.role \in {"SUPER_ADMIN", "TENANT_ADMIN"}

\* the 401 / 403 answers of a handler, or "pass"
Gate(caller) ==
  IF ~caller.ok THEN Error("UNAUTHORIZED", 401)
  ELSE IF ~IsAdmin(caller) THEN Error("FORBIDDEN", 403)
  ELSE [kind |-> "pass"]

\* line 82 without its test of the tenant
InScopeAnyAdmin(authResult, w) == authResult.role \in {"SUPER_ADMIN", "TENANT_ADMIN"}

\* the caller may see or change the webhook w
InScope(authResult, w) ==
  authResult.role = "SUPER_ADMIN" \/ w.tenantId = authResult.tenantId

\* lines 88 and 189 without the slice
MaskSecretWhole(secret) == secret \o <<".", ".", ".">>

\* w.secret.slice(0, 8) + '...'
MaskSecret(secret) == Slice0(secret, MASK_PREFIX_LEN) \o <<".", ".", ".">>

\* { ...w, secret: masked }
Sanitize(w) == SetField(w, "secret", MaskSecret(w.secret))

\* createWebhookSchema with z.array(z.string()) for z.array(z.enum(...))
SchemaAcceptsAnyEvent(body) ==
  /\ Has(body, "url") /\ IsUrl(body.url)
  /\ Has(body, "events")
  /\ Len(body.events) >= 1

\* createWebhookSchema.safeParse(body).success
SchemaAccepts(body) ==
  /\ Has(body, "url") /\ IsUrl(body.url)
  /\ Has(body, "events")
  /\ Len(body.events) >= 1
  /\ \A i \in DOMAIN body.events : body.events[i] \in Range(WEBHOOK_EVENTS)

\* validation.data: isActive defaults to true
ParsedIsActive(body) == IF Has(body, "isActive") THEN body.isActive ELSE TRUE

\* `whsec_${crypto.randomBytes(24).toString('hex')}`
SecretPrefix == <<"w", "h", "s", "e", "c", "_">>

\* line 123 with a bare hex secret
MakeSecretBare(bytes) == ToHex(bytes)

MakeSecret(bytes) == SecretPrefix \o ToHex(bytes)

\* `wh_${Date.now().toString(36)}`
MakeWebhookId(ms) == <<"w", "h", "_">> \o ToStringRadix(ms, RADIX)

\* `evt_${Date.now().toString(36)}`
MakeEventId(ms) == <<"e", "v", "t", "_">> \o ToStringRadix(ms, RADIX)

\* the Webhook object POST builds
NewWebhook(caller, body, bytes, ms) ==
  LET base == [ id |-> MakeWebhookId(ms),
                tenantId |-> caller.tenantId,
                url |-> body.url,
                secret |-> MakeSecret(bytes),
                events |-> body.events,
                isActive |-> ParsedIsActive(body),
                createdAt |-> ToISOString(ms),
                failureCount |-> 0 ]
  IN IF Has(body, "description")
     THEN SetField(base, "description", body.description)
     ELSE base

\* the body of POST's 201 response
CreatedData(w) ==
  LET base == [ id |-> w.id, url |-> w.url, secret |-> w.secret,
                events |-> w.events, isActive |-> w.isActive ]
  IN IF Has(w, "description")
     THEN SetField(base, "description", w.description)
     ELSE base

(***************************************************************************)
(* State.                                                                  *)
(***************************************************************************)
Clock == ClockStart..(ClockStart + MaxTicks)

Idle == [pc |-> "idle"]

Slots == 1..MaxDispatches

Refs == DOMAIN heap

\* the Webhook objects of the registry, in array order
StoredWebhooks == [i \in DOMAIN webhookStore |-> heap[webhookStore[i]]]

Init ==
  /\ webhookStore = <<>>
  /\ heap = <<>>
  /\ now = ClockStart
  /\ dispatches = [s \in Slots |-> Idle]
  /\ out = <<>>

\* time passes between two synchronous segments
Tick ==
  /\ now < ClockStart + MaxTicks
  /\ now' = now + 1
  /\ out' = <<>>
  /\ UNCHANGED <<webhookStore, heap, dispatches>>

(***************************************************************************)
(* GET /api/webhooks                                                       *)
(***************************************************************************)
ListFor(caller) ==
  LET visible == SelectSeq(webhookStore, LAMBDA r : InScope(caller, heap[r]))
  IN [i \in DOMAIN visible |-> Sanitize(heap[visible[i]])]

GetResponse(caller) ==
  IF Gate(caller).kind # "pass" THEN Gate(caller)
  ELSE Success([ webhooks |-> ListFor(caller),
                 availableEvents |-> WEBHOOK_EVENTS ], 200)

GET(caller) ==
  /\ out' = <<GetResponse(caller)>>
  /\ UNCHANGED <<webhookStore, heap, now, dispatches>>

(***************************************************************************)
(* POST /api/webhooks                                                      *)
(***************************************************************************)
POST(caller, body, bytes) ==
  IF Gate(caller).kind # "pass"
  THEN /\ out' = <<Gate(caller)>>
       /\ UNCHANGED <<webhookStore, heap, now, dispatches>>
  ELSE IF ~SchemaAccepts(body)
  THEN /\ out' = <<BadRequest("Invalid input")>>
       /\ UNCHANGED <<webhookStore, heap, now, dispatches>>
  ELSE LET webhook == NewWebhook(caller, body, bytes, now)
       IN /\ webhookStore' = Append(webhookStore, Len(heap) + 1)
          /\ heap' = Append(heap, webhook)
          /\ out' = <<Success(CreatedData(webhook), 201)>>
          /\ UNCHANGED <<now, dispatches>>

(***************************************************************************)
(* PATCH /api/webhooks                                                     *)
(***************************************************************************)
\* the callback of findIndex without its test of the caller's scope
IsTargetAnyTenant(caller, webhookId, w) == w.id = webhookId

\* the callback of findIndex: w.id === webhookId && in scope
IsTarget(caller, webhookId, w) == w.id = webhookId /\ InScope(caller, w)

\* webhookStore.findIndex(...): the first index whose element passes,
\* 1-based; 0 stands for JavaScript's -1
FindWebhook(caller, webhookId) ==
  IF \E i \in DOMAIN webhookStore : IsTarget(caller, webhookId, heap[webhookStore[i]])
  THEN CHOOSE i \in DOMAIN webhookStore :
         /\ IsTarget(caller, webhookId, heap[webhookStore[i]])
         /\ \A j \in 1..(i - 1) : ~IsTarget(caller, webhookId, heap[webhookStore[j]])
  ELSE 0

\* JavaScript truthiness of a body field holding a string or an array
Truthy(body, k) == Has(body, k) /\ body[k] # ""

\* the four conditional assignments of PATCH, applied in source order
ApplyUrl(w, body) ==
  IF Truthy(body, "url") THEN SetField(w, "url", body.url) ELSE w

ApplyEvents(w, body) ==
  IF Has(body, "events") THEN SetField(w, "events", body.events) ELSE w

ApplyDescription(w, body) ==
  IF Has(body, "description")
  THEN SetField(w, "description", body.description) ELSE w

ApplyIsActive(w, body) ==
  IF Has(body, "isActive") THEN SetField(w, "isActive", body.isActive) ELSE w

\* the assignments of PATCH made on a copy rebuilt without lastTriggeredAt
ApplyPatchFresh(w, body) ==
  LET p == ApplyIsActive(ApplyDescription(ApplyEvents(ApplyUrl(w, body),
                                                      body), body), body)
  IN [k \in DOMAIN p \ {"lastTriggeredAt"} |-> p[k]]

\* PATCH copying every field of the body that the object has
ApplyPatchSpread(w, body) ==
  [k \in DOMAIN w |-> IF Has(body, k) THEN body[k] ELSE w[k]]

ApplyPatch(w, body) ==
  ApplyIsActive(ApplyDescription(ApplyEvents(ApplyUrl(w, body), body), body),
                body)

PATCH(caller, body) ==
  IF Gate(caller).kind # "pass"
  THEN /\ out' = <<Gate(caller)>>
       /\ UNCHANGED <<webhookStore, heap, now, dispatches>>
  ELSE IF ~Has(body, "webhookId")
  THEN /\ out' = <<BadRequest("Webhook ID is required")>>
       /\ UNCHANGED <<webhookStore, heap, now, dispatches>>
  ELSE LET webhookIndex == FindWebhook(caller, body.webhookId)
       IN IF webhookIndex = 0
          THEN /\ out' = <<Error("NOT_FOUND", 404)>>
               /\ UNCHANGED <<webhookStore, heap, now, dispatches>>
          ELSE LET ref == webhookStore[webhookIndex]
                   updated == ApplyPatch(heap[ref], body)
               IN /\ heap' = [heap EXCEPT ![ref] = updated]
                  /\ out' = <<Success(Sanitize(updated), 200)>>
                  /\ UNCHANGED <<webhookStore, now, dispatches>>

(***************************************************************************)
(* DELETE /api/webhooks?id=...                                             *)
(***************************************************************************)
DELETE(caller, query) ==
  IF Gate(caller).kind # "pass"
  THEN /\ out' = <<Gate(caller)>>
       /\ UNCHANGED <<webhookStore, heap, now, dispatches>>
  ELSE IF ~Has(query, "id")
  THEN /\ out' = <<BadRequest("Webhook ID is required")>>
       /\ UNCHANGED <<webhookStore, heap, now, dispatches>>
  ELSE LET webhookIndex == FindWebhook(caller, query.id)
       IN IF webhookIndex = 0
          THEN /\ out' = <<Error("NOT_FOUND", 404)>>
               /\ UNCHANGED <<webhookStore, heap, now, dispatches>>
          ELSE /\ webhookStore' = Splice1(webhookStore, webhookIndex)
               /\ out' = <<Success([message |-> "Webhook deleted successfully"],
                                   200)>>
               /\ UNCHANGED <<heap, now, dispatches>>

\* ids a PATCH body or a DELETE query may name: every id POST can assign,
\* and one it never assigns
IdSamples == {MakeWebhookId(ms) : ms \in Clock} \cup {<<"w", "h", "_", "?">>}

PatchBodies ==
  Patches
  \cup {[webhookId |-> id] : id \in IdSamples}
  \cup {SetField(patch, "webhookId", id) : patch \in Patches, id \in IdSamples}

DeleteQueries == {[format |-> "json"]} \cup {[id |-> id] : id \in IdSamples}

(***************************************************************************)
(* dispatchWebhook                                                         *)
(***************************************************************************)
\* the filter of lines 240-244 also leaving out endpoints at the threshold
MatchesBelowThreshold(tenantId, event) ==
  SelectSeq(webhookStore,
            LAMBDA r : /\ heap[r].tenantId = tenantId
                       /\ heap[r].isActive
                       /\ heap[r].failureCount < DISABLE_THRESHOLD
                       /\ event \in Range(heap[r].events))

\* the filter of lines 240-244 without its test of isActive
MatchesInactiveToo(tenantId, event) ==
  SelectSeq(webhookStore,
            LAMBDA r : /\ heap[r].tenantId = tenantId
                       /\ event \in Range(heap[r].events))

\* the filter of lines 240-244, as references in array order
Matches(tenantId, event) ==
  SelectSeq(webhookStore,
            LAMBDA r : /\ heap[r].tenantId = tenantId
                       /\ heap[r].isActive
                       /\ event \in Range(heap[r].events))

\* the request one loop iteration hands to fetch (lines 248-268)
FetchRequest(webhook, event, payload, ms) ==
  LET timestamp == ms
      signaturePayload == <<timestamp, ".", JsonStringify(payload)>>
      signature == HmacSha256Hex(webhook.secret, signaturePayload)
  IN [ kind |-> "fetch",
       url |-> webhook.url,
       method |-> "POST",
       signatureT |-> timestamp,
       signatureV1 |-> signature,
       eventHeader |-> event,
       body |-> JsonStringify([ id |-> MakeEventId(ms),
                                event |-> event,
                                timestamp |-> ToISOString(ms),
                                data |-> payload ]) ]

\* the filter callback throws a TypeError: it reaches w.events.includes on
\* an element whose events value has no such method (the tests of tenantId
\* and isActive come first and short-circuit)
FilterThrows(tenantId) ==
  \E r \in Range(webhookStore) :
    /\ heap[r].tenantId = tenantId
    /\ heap[r].isActive
    /\ ~IsArray(heap[r].events)

\* the first synchronous segment: the filter, and the first iteration up to
\* its await; an exception of the filter is outside the try block and
\* rejects the promise dispatchWebhook returned
Dispatch(slot, tenantId, event, payload) ==
  /\ dispatches[slot] = Idle
  /\ \A s \in 1..(slot - 1) : dispatches[s] # Idle
  /\ LET webhooks == Matches(tenantId, event)
     IN IF FilterThrows(tenantId)
        THEN /\ out' = <<[kind |-> "throw", name |-> "TypeError"]>>
             /\ UNCHANGED dispatches
        ELSE IF webhooks = <<>>
        THEN /\ out' = <<>>
             /\ UNCHANGED dispatches
        ELSE /\ dispatches' =
                  [dispatches EXCEPT ![slot] =
                     [ pc |-> "await", tenantId |-> tenantId,
                       event |-> event, payload |-> payload,
                       webhooks |-> webhooks, i |-> 1 ]]
             /\ out' = <<FetchRequest(heap[webhooks[1]], event, payload, now)>>
  /\ UNCHANGED <<webhookStore, heap, now>>

\* the fetch settled without throwing and response.ok holds
Delivered(result) == result.kind = "response" /\ ResponseOk(result.status)

\* lines 274-275 without the reset of failureCount
RecordSuccessKeepsCount(w, ms) ==
  SetField(w, "lastTriggeredAt", ToISOString(ms))

\* lines 274-275 with a success that also re-enables the endpoint
RecordSuccessReenables(w, ms) ==
  SetField(SetField(SetField(w, "lastTriggeredAt", ToISOString(ms)),
                    "failureCount", 0), "isActive", TRUE)

\* lines 274-275
RecordSuccess(w, ms) ==
  SetField(SetField(w, "lastTriggeredAt", ToISOString(ms)), "failureCount", 0)

\* line 285 with > for >=
ReachedThresholdLate(failureCount) == failureCount > DISABLE_THRESHOLD

\* line 285
ReachedThreshold(failureCount) == failureCount >= DISABLE_THRESHOLD

\* lines 282-288 with the increment lost
RecordFailureLost(w) ==
  IF ReachedThreshold(w.failureCount)
  THEN SetField(w, "isActive", FALSE)
  ELSE w

\* lines 282-288
RecordFailure(w) ==
  LET counted == SetField(w, "failureCount", w.failureCount + 1)
  IN IF ReachedThreshold(counted.failureCount)
     THEN SetField(counted, "isActive", FALSE)
     ELSE counted

\* what the catch block logs
FailureLogs(before, after, event, result) ==
  << [ kind |-> "log", level |-> "error", webhookId |-> before.id,
       event |-> event,
       error |-> IF result.kind = "response"
                 THEN <<"HTTP", result.status>> ELSE <<"fetch failed">> ] >>
  \o (IF ReachedThreshold(after.failureCount)
      THEN << [ kind |-> "log", level |-> "warn", webhookId |-> before.id ] >>
      ELSE <<>>)

\* the loop of line 246 leaving out the last element
HasNextButLast(d) == d.i + 1 < Len(d.webhooks)

\* for (const webhook of webhooks): another element follows element i
HasNext(d) == d.i < Len(d.webhooks)

\* the continuation recording the outcome on every endpoint of the tenant,
\* as with a counter kept per tenant
SettleSharedCounter(slot, result) ==
  LET d == dispatches[slot] IN
  /\ d.pc = "await"
  /\ LET ref == d.webhooks[d.i]
         after == IF Delivered(result) THEN RecordSuccess(heap[ref], now)
                  ELSE RecordFailure(heap[ref])
         logs == IF Delivered(result) THEN <<>>
                 ELSE FailureLogs(heap[ref], after, d.event, result)
     IN /\ heap' = [q \in DOMAIN heap |->
                      IF heap[q].tenantId # heap[ref].tenantId THEN heap[q]
                      ELSE IF Delivered(result) THEN RecordSuccess(heap[q], now)
                      ELSE RecordFailure(heap[q])]
        /\ IF HasNext(d)
           THEN /\ dispatches' = [dispatches EXCEPT ![slot].i = d.i + 1]
                /\ out' = logs \o <<FetchRequest(heap'[d.webhooks[d.i + 1]],
                                                 d.event, d.payload, now)>>
           ELSE /\ dispatches' = [dispatches EXCEPT ![slot] = Idle]
                /\ out' = logs
  /\ UNCHANGED <<webhookStore, now>>

\* the continuation after an await: the outcome of iteration i is recorded
\* on the object the dispatch holds, then the loop goes on to the next
\* element of its array up to the next await, or ends
Settle(slot, result) ==
  LET d == dispatches[slot] IN
  /\ d.pc = "await"
  /\ LET ref == d.webhooks[d.i]
         after == IF Delivered(result) THEN RecordSuccess(heap[ref], now)
                  ELSE RecordFailure(heap[ref])
         logs == IF Delivered(result) THEN <<>>
                 ELSE FailureLogs(heap[ref], after, d.event, result)
     IN /\ heap' = [heap EXCEPT ![ref] = after]
        /\ IF HasNext(d)
           THEN /\ dispatches' = [dispatches EXCEPT ![slot].i = d.i + 1]
                /\ out' = logs \o <<FetchRequest(heap'[d.webhooks[d.i + 1]],
                                                 d.event, d.payload, now)>>
           ELSE /\ dispatches' = [dispatches EXCEPT ![slot] = Idle]
                /\ out' = logs
  /\ UNCHANGED <<webhookStore, now>>

(***************************************************************************)
(* The environment: who calls the handlers, with what, and how many        *)
(* objects, dispatches and failures a behaviour goes through.              *)
(***************************************************************************)
ListBy(callers) == \E caller \in callers : GET(caller)

CreateBy(callers, bodies, byteSamples, maxWebhooks) ==
  \E caller \in callers, body \in bodies,
     bytes \in RandomBytes(SECRET_BYTES, byteSamples) :
    /\ (Gate(caller).kind = "pass" /\ SchemaAccepts(body))
         => Len(heap) < maxWebhooks
    /\ POST(caller, body, bytes)

UpdateBy(callers, bodies) ==
  \E caller \in callers, body \in bodies : PATCH(caller, body)

DeleteBy(callers, queries) ==
  \E caller \in callers, query \in queries : DELETE(caller, query)

StartDispatchFor(tenants, events, maxInFlight, maxFailures) ==
  \E slot \in 1..maxInFlight, tenantId \in tenants, event \in events,
     payload \in Payloads :
    /\ \A r \in Range(Matches(tenantId, event)) :
         heap[r].failureCount < maxFailures
    /\ Dispatch(slot, tenantId, event, payload)

FetchSettlesWith(results) ==
  \E slot \in Slots, result \in results : Settle(slot, result)

\* the registry under every kind of caller
RegistryCallers ==
  { [ok |-> FALSE, role |-> "NONE", tenantId |-> "T1"],
    [ok |-> TRUE, role |-> "SUPER_ADMIN", tenantId |-> "T2"],
    [ok |-> TRUE, role |-> "TENANT_ADMIN", tenantId |-> "T1"],
    [ok |-> TRUE, role |-> "BUYER", tenantId |-> "T1"] }

RegistryCreateBodies ==
  { [url |-> GoodUrl, events |-> <<"payment.failed", "order.created">>,
     description |-> "primary"],
    [url |-> BadUrl, events |-> <<"order.created">>],
    [url |-> GoodUrl, events |-> <<>>],
    [url |-> GoodUrl, events |-> <<"order.created", UnknownEvent>>] }

RegistryPatchBodies ==
  {[isActive |-> FALSE]}
  \cup {[webhookId |-> id, isActive |-> FALSE] : id \in IdSamples}

RegistryFetchResults == {[kind |-> "response", status |-> 500]}

Next ==
  \/ Tick
  \/ ListBy(RegistryCallers)
  \/ CreateBy(RegistryCallers, RegistryCreateBodies, {171}, MaxWebhooks)
  \/ UpdateBy(RegistryCallers, RegistryPatchBodies)
  \/ DeleteBy(RegistryCallers, DeleteQueries)
  \/ StartDispatchFor({"T1"}, {"order.created"}, 1, 1)
  \/ FetchSettlesWith(RegistryFetchResults)

Spec == Init /\ [][Next]_vars

(***************************************************************************)
(* The circuit breaker: one tenant admin, one endpoint, deliveries that    *)
(* fail up to and past the threshold, with two dispatches in flight.       *)
(***************************************************************************)
TenantAdmin1 == [ok |-> TRUE, role |-> "TENANT_ADMIN", tenantId |-> "T1"]

BreakerCreateBodies == {[url |-> GoodUrl, events |-> <<"order.created">>]}

BreakerPatchBodies ==
  {[webhookId |-> id, isActive |-> b] : id \in IdSamples, b \in BOOLEAN}

BreakerFetchResults ==
  { [kind |-> "response", status |-> 200],
    [kind |-> "response", status |-> 500],
    [kind |-> "rejected"] }

BreakerNext ==
  \/ Tick
  \/ ListBy({TenantAdmin1})
  \/ CreateBy({TenantAdmin1}, BreakerCreateBodies, {171}, FewWebhooks)
  \/ UpdateBy({TenantAdmin1}, BreakerPatchBodies)
  \/ DeleteBy({TenantAdmin1}, DeleteQueries)
  \/ StartDispatchFor({"T1"}, {"order.created"}, MaxDispatches, MaxFailures)
  \/ FetchSettlesWith(BreakerFetchResults)

BreakerSpec == Init /\ [][BreakerNext]_vars

(***************************************************************************)
(* Matching and fan-out: endpoints of two tenants, active and inactive,    *)
(* and dispatches of subscribed and unsubscribed event types.              *)
(***************************************************************************)
SuperAdmin == [ok |-> TRUE, role |-> "SUPER_ADMIN", tenantId |-> "T2"]

MatchCallers == {TenantAdmin1, SuperAdmin}

MatchCreateBodies == {[url |-> GoodUrl, events |-> <<"order.created">>]}

MatchPatchBodies ==
  {[webhookId |-> MakeWebhookId(ms), isActive |-> b] :
     ms \in Clock, b \in BOOLEAN}

MatchDeleteQueries == {[id |-> MakeWebhookId(ms)] : ms \in Clock}

MatchFetchResults ==
  { [kind |-> "response", status |-> 200],
    [kind |-> "response", status |-> 500],
    [kind |-> "rejected"] }

MatchNext ==
  \/ Tick
  \/ ListBy({TenantAdmin1})
  \/ CreateBy(MatchCallers, MatchCreateBodies, {171}, MaxWebhooks)
  \/ UpdateBy(MatchCallers, MatchPatchBodies)
  \/ DeleteBy(MatchCallers, MatchDeleteQueries)
  \/ StartDispatchFor(Tenants, {"order.created", "payment.failed"}, 1, 1)
  \/ FetchSettlesWith(MatchFetchResults)

MatchSpec == Init /\ [][MatchNext]_vars

(***************************************************************************)
(* Properties of the circuit breaker (BreakerSpec).                        *)
(***************************************************************************)
\* a step that records a delivery failure on object r
FailureRecorded(r) == heap'[r].failureCount = heap[r].failureCount + 1

\* C1: the failure that makes 10 in a row leaves isActive false; a failure
\* that makes 9 or fewer in a row leaves isActive as it was (an active
\* endpoint stays active); a failure past the 10th leaves it false.
C1_TripsAtTenthFailure ==
  [][\A r \in DOMAIN heap :
       FailureRecorded(r) =>
         /\ heap'[r].failureCount >= 10 => ~heap'[r].isActive
         /\ heap'[r].failureCount <= 9 => heap'[r].isActive = heap[r].isActive
    ]_vars

\* the 10th failure in a row has just been recorded and logged
C1_Witness ==
  \E r \in DOMAIN heap :
    /\ heap[r].failureCount = 10
    /\ ~heap[r].isActive
    /\ \E k \in DOMAIN out : out[k].kind = "log" /\ out[k].level = "warn"

\* the object whose fetch the dispatch in slot is awaiting
Awaited(slot) == dispatches[slot].webhooks[dispatches[slot].i]

\* C2: when a fetch settles with a 2xx response, the endpoint's
\* failureCount becomes 0 and its lastTriggeredAt the current time,
\* whatever the counter was.
C2_SuccessResetsCounter ==
  [][\A slot \in Slots, status \in 200..299 :
       Settle(slot, [kind |-> "response", status |-> status]) =>
         /\ heap'[Awaited(slot)].failureCount = 0
         /\ Has(heap'[Awaited(slot)], "lastTriggeredAt")
         /\ heap'[Awaited(slot)].lastTriggeredAt = ToISOString(now)
    ]_vars

\* a success has just been recorded on an endpoint that is inactive by now:
\* its counter is 0 and its lastTriggeredAt the current time
C2_Witness ==
  \E r \in DOMAIN heap :
    /\ heap[r].failureCount = 0
    /\ Has(heap[r], "lastTriggeredAt")
    /\ heap[r].lastTriggeredAt = ToISOString(now)
    /\ ~heap[r].isActive
    /\ out = <<>>

\* a step in which the dispatch of slot starts
Starts(slot) == dispatches[slot] = Idle /\ dispatches'[slot] # Idle

\* C5: an endpoint the breaker has disabled is selected by no dispatch that
\* starts while it is disabled, and becomes active again only in a step of
\* PATCH with isActive = true.
C5_DisabledStaysDisabled ==
  [][\A r \in DOMAIN heap :
       (heap[r].failureCount >= 10 /\ ~heap[r].isActive) =>
         /\ \A slot \in Slots :
              Starts(slot) => r \notin Range(dispatches'[slot].webhooks)
         /\ heap'[r].isActive =>
              \E caller \in Callers, body \in PatchBodies :
                /\ Has(body, "isActive") /\ body.isActive = TRUE
                /\ PATCH(caller, body)
    ]_vars

\* a tripped endpoint is still in the registry, and a dispatch for its
\* tenant and event has just selected nothing
C5_Witness ==
  \E r \in Range(webhookStore) :
    /\ heap[r].failureCount >= 10
    /\ ~heap[r].isActive
    /\ \A slot \in Slots : dispatches[slot] = Idle
    /\ out = <<>>

C3_SelectedAreEligible ==
  [][\A slot \in Slots :
       Starts(slot) =>
         \A r \in Range(dispatches'[slot].webhooks) :
           /\ r \in Range(webhookStore)
           /\ heap[r].isActive
           /\ heap[r].tenantId = dispatches'[slot].tenantId
           /\ dispatches'[slot].event \in Range(heap[r].events)
    ]_vars

\* a dispatch has just selected one endpoint of a registry that holds an
\* active endpoint of the other tenant and no second one of its own
C3_Witness ==
  \E slot \in Slots :
    /\ dispatches[slot] # Idle
    /\ dispatches[slot].i = 1
    /\ Len(dispatches[slot].webhooks) = 1
    /\ out # <<>> /\ out[1].kind = "fetch"
    /\ \E r \in Range(webhookStore) :
         /\ heap[r].tenantId # dispatches[slot].tenantId
         /\ heap[r].isActive
         /\ heap[r].failureCount = 0

\* the endpoints of the registry a dispatch of event for tenantId is to reach
Eligible(tenantId, event) ==
  { r \in Range(webhookStore) :
      /\ heap[r].isActive
      /\ heap[r].tenantId = tenantId
      /\ event \in Range(heap[r].events) }

\* the last output of the step is the fetch of a request to object r
FetchSentTo(r) ==
  /\ out' # <<>>
  /\ out'[Len(out')].kind = "fetch"
  /\ out'[Len(out')].url = heap'[r].url

PatchCreateBodies ==
  { [url |-> GoodUrl, events |-> <<"order.created">>],
    [url |-> GoodUrl, events |-> <<"payment.failed", "order.created">>,
     description |-> "primary", isActive |-> FALSE] }

PatchNext ==
  \/ Tick
  \/ ListBy({TenantAdmin1})
  \/ CreateBy({TenantAdmin1, SuperAdmin}, PatchCreateBodies, {171}, FewWebhooks)
  \/ UpdateBy({TenantAdmin1, SuperAdmin}, PatchBodies)
  \/ DeleteBy({TenantAdmin1}, DeleteQueries)
  \/ StartDispatchFor(Tenants, DispatchEvents, 1, 1)
  \/ FetchSettlesWith(MatchFetchResults)

PatchSpec == Init /\ [][PatchNext]_vars

(***************************************************************************)
(* Properties of the registry.                                             *)
(***************************************************************************)
\* C7: every endpoint of the registry subscribes to at least one event
\* type, and only to event types of WEBHOOK_EVENTS.
C7_EventsRecognizedAndNonEmpty ==
  \A r \in Range(webhookStore) :
    /\ Len(heap[r].events) >= 1
    /\ Range(heap[r].events) \subseteq Range(WEBHOOK_EVENTS)

Dots == <<".", ".", ".">>

\* the endpoint objects a response carries: the elements of a List
\* response, the body of an Update response
EndpointsIn(response) ==
  IF ~response.success THEN {}
  ELSE IF Has(response.data, "webhooks") THEN Range(response.data.webhooks)
  ELSE IF Has(response.data, "failureCount") THEN {response.data}
  ELSE {}

\* C8: every endpoint in a List or an Update response carries, as secret,
\* the first 8 characters of the stored secret followed by "...", which is
\* no endpoint's full secret, whoever the caller is; a response carries a
\* full secret only if it is the 201 of a Create.
C8_SecretMaskedAfterCreate ==
  \A k \in DOMAIN out :
    out[k].kind = "response" =>
      /\ \A e \in EndpointsIn(out[k]) :
           /\ \E r \in DOMAIN heap :
                /\ heap[r].id = e.id
                /\ e.secret = SubSeq(heap[r].secret, 1, 8) \o Dots
           /\ \A r \in DOMAIN heap : e.secret # heap[r].secret
      /\ ( /\ out[k].success
           /\ Has(out[k].data, "secret")
           /\ \E r \in DOMAIN heap : out[k].data.secret = heap[r].secret )
           => out[k].status = 201

\* the super-admin has just listed the endpoint of another tenant
C8_Witness ==
  /\ out # <<>>
  /\ out[1].kind = "response"
  /\ out[1].success
  /\ Has(out[1].data, "webhooks")
  /\ \E i \in DOMAIN out[1].data.webhooks :
       /\ out[1].data.webhooks[i].tenantId = "T1"
       /\ Len(out[1].data.webhooks[i].secret) = 11

\* a body POST is to accept: an absolute URL, and a non-empty array of
\* recognized event types
ValidInput(body) ==
  /\ Has(body, "url") /\ body.url \in {GoodUrl, OtherUrl}
  /\ Has(body, "events") /\ body.events # <<>>
  /\ Range(body.events) \subseteq Range(WEBHOOK_EVENTS)

\* what C9 requires of a step of POST(caller, body, bytes)
CreatedAndListed(caller) ==
  /\ Len(webhookStore') = Len(webhookStore) + 1
  /\ SubSeq(webhookStore', 1, Len(webhookStore)) = webhookStore
  /\ \A r \in DOMAIN heap : heap'[r] = heap[r]
  /\ LET w == heap'[webhookStore'[Len(webhookStore')]]
         listed == GetResponse(caller)'.data.webhooks
     IN /\ w.tenantId = caller.tenantId
        /\ w.failureCount = 0
        /\ ~Has(w, "lastTriggeredAt")
        /\ SubSeq(w.secret, 1, 6) = <<"w", "h", "s", "e", "c", "_">>
        /\ Len(w.secret) > 8
        /\ out'[1].status = 201
        /\ out'[1].data.secret = w.secret
        /\ listed # <<>>
        /\ listed[Len(listed)].id = w.id
        /\ listed[Len(listed)].secret = SubSeq(w.secret, 1, 8) \o Dots
        /\ listed[Len(listed)].secret # w.secret

\* C9: a Create with valid input by an admin appends one endpoint and
\* changes no other; the new endpoint is owned by the caller's tenant, has
\* failureCount 0, no lastTriggeredAt and a secret that starts with
\* "whsec_"; the 201 response carries that secret; the List the same caller
\* gets right after ends with that endpoint, its secret reduced to the same
\* first 8 characters and "...".
C9_CreateThenList ==
  [][\A caller \in Callers :
       (caller.ok /\ caller.role \in {"SUPER_ADMIN", "TENANT_ADMIN"}) =>
         \A body \in CreateBodies :
           ValidInput(body) =>
             \A bytes \in RandomBytes(SECRET_BYTES, ByteSamples) :
               POST(caller, body, bytes) => CreatedAndListed(caller)
    ]_vars

\* a Create has just answered 201 with the secret of the endpoint it stored
C9_Witness ==
  /\ out # <<>>
  /\ out[1].kind = "response"
  /\ out[1].status = 201
  /\ webhookStore # <<>>
  /\ out[1].data.secret = heap[webhookStore[Len(webhookStore)]].secret

\* what C10 requires of a step of POST with an invalid body
RejectedUnchanged ==
  /\ out'[1].kind = "response"
  /\ out'[1].status = 400
  /\ ~out'[1].success
  /\ UNCHANGED <<webhookStore, heap>>

\* C10: in every state, a Create by an admin whose body has no valid
\* absolute url, an empty events array or an unrecognized event type can
\* only be answered 400, leaving the registry and every endpoint as they
\* were.
C10_InvalidCreateRejected ==
  \A caller \in Callers, body \in CreateBodies,
     bytes \in RandomBytes(SECRET_BYTES, ByteSamples) :
    ( /\ caller.ok /\ caller.role \in {"SUPER_ADMIN", "TENANT_ADMIN"}
      /\ ~ValidInput(body) ) =>
      /\ ENABLED POST(caller, body, bytes)
      /\ ~ENABLED (POST(caller, body, bytes) /\ ~RejectedUnchanged)

\* a Create has just been answered 400 while the registry holds an endpoint
C10_Witness ==
  /\ out # <<>>
  /\ out[1].kind = "response"
  /\ out[1].status = 400
  /\ out[1].message = "Invalid input"
  /\ webhookStore # <<>>

(***************************************************************************)
(* Scope of Update and Delete (MatchSpec).                                 *)
(***************************************************************************)
\* no endpoint of the registry with this id is owned by the caller's tenant:
\* the id is unknown, or carried by endpoints of other tenants only
NoneOfOwnTenant(caller, id) ==
  \A r \in Range(webhookStore) :
    heap[r].id = id => heap[r].tenantId # caller.tenantId

\* what C11 requires of a step answering a request for an endpoint the
\* caller has none of
NotFoundUnchanged ==
  /\ out'[1].kind = "response"
  /\ out'[1].status = 404
  /\ ~out'[1].success
  /\ UNCHANGED <<webhookStore, heap>>

\* what C11 requires of an Update by a super-admin naming a stored id
UpdatedAny(id, body) ==
  /\ out'[1].status = 200
  /\ out'[1].data.id = id
  /\ Has(body, "isActive") => out'[1].data.isActive = body.isActive
  /\ webhookStore' = webhookStore
  /\ \E r \in Range(webhookStore) :
       /\ heap[r].id = id
       /\ out'[1].data.tenantId = heap[r].tenantId
       /\ Has(body, "isActive") => heap'[r].isActive = body.isActive

\* what C11 requires of a Delete by a super-admin naming a stored id
DeletedAny(id) ==
  /\ out'[1].status = 200
  /\ Len(webhookStore') = Len(webhookStore) - 1
  /\ \E i \in DOMAIN webhookStore :
       /\ heap[webhookStore[i]].id = id
       /\ webhookStore' = Splice1(webhookStore, i)

\* C11: in every state, an Update or a Delete by a tenant admin that names
\* an id no endpoint of the admin's own tenant carries can only be answered
\* 404, with the registry and every endpoint left as they were; an Update
\* or a Delete by a super-admin that names the id of any stored endpoint,
\* whatever its tenant, is answered 200 and acts on an endpoint of that id.
C11_ForeignOrMissingIsNotFound ==
  \A caller \in Callers, id \in IdSamples :
    /\ (caller.ok /\ caller.role = "TENANT_ADMIN"
          /\ NoneOfOwnTenant(caller, id)) =>
         /\ \A patch \in Patches :
              /\ ENABLED PATCH(caller, SetField(patch, "webhookId", id))
              /\ ~ENABLED ( /\ PATCH(caller, SetField(patch, "webhookId", id))
                            /\ ~NotFoundUnchanged )
         /\ ENABLED DELETE(caller, [id |-> id])
         /\ ~ENABLED (DELETE(caller, [id |-> id]) /\ ~NotFoundUnchanged)
    /\ (caller.ok /\ caller.role = "SUPER_ADMIN"
          /\ \E r \in Range(webhookStore) : heap[r].id = id) =>
         /\ \A patch \in Patches :
              /\ ENABLED PATCH(caller, SetField(patch, "webhookId", id))
              /\ ~ENABLED ( /\ PATCH(caller, SetField(patch, "webhookId", id))
                            /\ ~UpdatedAny(id, SetField(patch, "webhookId", id)) )
         /\ ENABLED DELETE(caller, [id |-> id])
         /\ ~ENABLED (DELETE(caller, [id |-> id]) /\ ~DeletedAny(id))

\* a request naming a stored id has just been answered 404: every id the
\* callers name is carried by an endpoint, all of them of tenant T2, so the
\* request was the one of the admin of tenant T1
C11_Witness ==
  /\ out # <<>>
  /\ out[1].kind = "response"
  /\ out[1].status = 404
  /\ webhookStore # <<>>
  /\ \A r \in Range(webhookStore) : heap[r].tenantId = "T2"
  /\ \A ms \in Clock :
       \E r \in Range(webhookStore) : heap[r].id = MakeWebhookId(ms)

(***************************************************************************)
(* Frame of an Update (PatchSpec).                                         *)
(***************************************************************************)
PatchableFields == {"url", "events", "description", "isActive"}

\* what C12 requires of an Update answered 200: one endpoint of the named id
\* takes every provided field and keeps every other, and no other object
\* changes
PatchedAsGiven(body) ==
  /\ webhookStore' = webhookStore
  /\ \E r \in Range(webhookStore) :
       /\ heap[r].id = body.webhookId
       /\ \A q \in DOMAIN heap : q # r => heap'[q] = heap[q]
       /\ \A k \in PatchableFields :
            IF Has(body, k)
            THEN Has(heap'[r], k) /\ heap'[r][k] = body[k]
            ELSE /\ Has(heap'[r], k) = Has(heap[r], k)
                 /\ Has(heap[r], k) => heap'[r][k] = heap[r][k]

\* C12: an Update that is answered 200 leaves the endpoint with the
\* provided value in every field of url, events, description and isActive
\* that the patch provides, and with its previous value in every one of
\* these fields that the patch does not provide.
C12_OnlyProvidedFieldsChange ==
  [][\A caller \in {TenantAdmin1, SuperAdmin}, body \in PatchBodies :
       (PATCH(caller, body) /\ out'[1].status = 200) => PatchedAsGiven(body)
    ]_vars

(***************************************************************************)
(* Scope of List (Spec).                                                   *)
(***************************************************************************)
\* positions of the registry a List by this caller is to return
Visible(caller) ==
  { i \in DOMAIN webhookStore :
      \/ caller.role = "SUPER_ADMIN"
      \/ heap[webhookStore[i]].tenantId = caller.tenantId }

\* the listed object e is the stored object w, up to the secret
Shows(e, w) == [e EXCEPT !.secret = w.secret] = w

\* what C13 requires of a List by an admin: one listed object per visible
\* position and no other, in registry order
ListedExactly(caller) ==
  LET listed == out'[1].data.webhooks
  IN /\ out'[1].status = 200
     /\ Len(listed) = Cardinality(Visible(caller))
     /\ \A j \in DOMAIN listed :
          \E i \in Visible(caller) :
            /\ Shows(listed[j], heap[webhookStore[i]])
            /\ Cardinality({h \in Visible(caller) : h < i}) = j - 1

\* C13: in every state, a List by a tenant admin returns the endpoints of
\* the registry whose tenantId is the admin's tenantId, all of them and no
\* other, and a List by a super-admin returns every endpoint of the registry.
C13_ListIsTenantScoped ==
  \A caller \in Callers :
    (caller.ok /\ caller.role \in {"SUPER_ADMIN", "TENANT_ADMIN"}) =>
      /\ ENABLED GET(caller)
      /\ ~ENABLED (GET(caller) /\ ~ListedExactly(caller))

\* a List has just returned one endpoint, of tenant T1, out of a registry
\* that also holds an endpoint of tenant T2: the List of the admin of T1
C13_Witness ==
  /\ out # <<>>
  /\ out[1].kind = "response"
  /\ out[1].success
  /\ Has(out[1].data, "webhooks")
  /\ Len(out[1].data.webhooks) = 1
  /\ out[1].data.webhooks[1].tenantId = "T1"
  /\ \E r \in Range(webhookStore) : heap[r].tenantId = "T2"

\* C14: no two endpoints of the registry have the same id.
C14_IdsAreUnique ==
  \A i, j \in DOMAIN webhookStore :
    i # j => heap[webhookStore[i]].id # heap[webhookStore[j]].id

(***************************************************************************)
(* Containment of delivery failures (PatchSpec).                           *)
(***************************************************************************)
\* no output of the step is an exception reaching the caller of dispatch
NothingRaised == \A k \in DOMAIN out' : out'[k].kind # "throw"

\* C15: whatever the registry holds after Creates, Updates and Deletes, a
\* dispatch raises nothing to its caller, neither when it starts nor when a
\* fetch settles; a fetch that settles with a non-2xx response or a
\* rejection is counted on its endpoint and logged, and the dispatch goes on.
C15_DispatchNeverRaises ==
  [][/\ \A slot \in Slots, tenantId \in Tenants, event \in DispatchEvents,
           payload \in Payloads :
          Dispatch(slot, tenantId, event, payload) => NothingRaised
     /\ \A slot \in Slots, result \in FetchResults :
          Settle(slot, result) =>
            /\ NothingRaised
            /\ ~(result.kind = "response" /\ result.status \in 200..299) =>
                 /\ heap'[Awaited(slot)].failureCount
                      = heap[Awaited(slot)].failureCount + 1
                 /\ out' # <<>>
                 /\ out'[1].kind = "log"
                 /\ out'[1].level = "error"
                 /\ out'[1].webhookId = heap[Awaited(slot)].id
    ]_vars

(***************************************************************************)
(* The signature of a delivery (BreakerSpec).                              *)
(***************************************************************************)
\* what a recipient holding this secret computes over the request received
Recomputed(secret, request) ==
  HmacSha256Hex(secret, <<request.signatureT, ".", request.body>>)

\* C16: the v1 value of every request sent is the HMAC-SHA256, keyed with
\* the secret of the endpoint the request goes to, of the header's t value,
\* a dot and the body of that same request.
C16_SignatureCoversSentBody ==
  \A k \in DOMAIN out :
    out[k].kind = "fetch" =>
      \E r \in DOMAIN heap :
        /\ heap[r].url = out[k].url
        /\ out[k].signatureV1 = Recomputed(heap[r].secret, out[k])

(***************************************************************************)
(* Manual reactivation (BreakerSpec).                                      *)
(***************************************************************************)
\* C17: an Update answered 200 whose patch has isActive = true leaves the
\* endpoint active with failureCount 0, and returns it so; hence a failure
\* turns an active endpoint inactive only as the 10th counted since the
\* last success or reactivation, that is from a counter of 9.
C17_ReactivationResetsCounter ==
  [][/\ \A caller \in {TenantAdmin1, SuperAdmin}, body \in PatchBodies :
          ( /\ Has(body, "isActive") /\ body.isActive = TRUE
            /\ Has(body, "webhookId")
            /\ PATCH(caller, body)
            /\ out'[1].status = 200 ) =>
            /\ out'[1].data.isActive
            /\ out'[1].data.failureCount = 0
            /\ \E r \in Range(webhookStore) :
                 /\ heap[r].id = body.webhookId
                 /\ heap'[r].isActive
                 /\ heap'[r].failureCount = 0
     /\ \A r \in DOMAIN heap :
          (FailureRecorded(r) /\ heap[r].isActive /\ ~heap'[r].isActive) =>
            heap[r].failureCount = 9
    ]_vars

\* C18: every active endpoint of the registry has a failureCount between 0
\* and 9.
C18_ActiveCounterBelowThreshold ==
  \A r \in Range(webhookStore) :
    heap[r].isActive => heap[r].failureCount \in 0..9

(***************************************************************************)
(* Dispatches interleaved with registry operations (MatchSpec).            *)
(***************************************************************************)
\* the step sends a request on behalf of the dispatch in slot: the dispatch
\* starts, or moves on to its next endpoint
SendsFor(slot) ==
  /\ dispatches'[slot] # Idle
  /\ dispatches'[slot] # dispatches[slot]

\* C19: whenever a dispatch sends a request, the endpoint the request goes
\* to is active at that moment, also when the dispatch selected it earlier.
C19_NoDeliveryToInactive ==
  [][\A slot \in Slots :
       SendsFor(slot) =>
         heap'[dispatches'[slot].webhooks[dispatches'[slot].i]].isActive
    ]_vars

(***************************************************************************)
(* Fan-out: two endpoints of one tenant, one of which never answers.  The  *)
(* fetch of line 255 carries no timeout or abort signal, so a request to   *)
(* an endpoint that never answers stays pending; a request to an endpoint  *)
(* that answers settles, and the event loop then runs the continuation.    *)
(***************************************************************************)
FanOutCreateBodies ==
  { [url |-> GoodUrl, events |-> <<"order.created">>],
    [url |-> OtherUrl, events |-> <<"order.created">>] }

\* destinations that accept the connection and never answer
UnresponsiveUrls == {OtherUrl}

FetchSettlesFor(results, unresponsive) ==
  \E slot \in Slots, result \in results :
    /\ dispatches[slot].pc = "await"
    /\ heap[Awaited(slot)].url \notin unresponsive
    /\ Settle(slot, result)

FanOutNext ==
  \/ Tick
  \/ ListBy({TenantAdmin1})
  \/ CreateBy({TenantAdmin1}, FanOutCreateBodies, {171}, MaxWebhooks)
  \/ StartDispatchFor({"T1"}, {"order.created"}, 1, 1)
  \/ FetchSettlesFor(MatchFetchResults, UnresponsiveUrls)

FanOutSpec ==
  /\ Init
  /\ [][FanOutNext]_vars
  /\ WF_vars(FetchSettlesFor(MatchFetchResults, UnresponsiveUrls))

\* the dispatch in slot has selected an endpoint it has not yet sent a
\* request to
Behind(slot) ==
  /\ dispatches[slot] # Idle
  /\ dispatches[slot].i < Len(dispatches[slot].webhooks)

\* C20: a dispatch that still has a selected endpoint to send a request to
\* gets to send it, whether or not the requests it sent to its other
\* endpoints are ever answered.
C20_AttemptsDoNotBlock ==
  \A slot \in Slots : Behind(slot) ~> ~Behind(slot)

\* C21: every dispatch that has sent a request and awaits its outcome
\* eventually finishes, also when the destination never answers: the
\* attempt is then ended as a failure after a bounded time.
C21_EveryDispatchFinishes ==
  \A slot \in Slots : (dispatches[slot] # Idle) ~> (dispatches[slot] = Idle)

(***************************************************************************)
(* Outcomes recorded by dispatches in flight together (BreakerSpec).       *)
(***************************************************************************)
\* the step records the outcome of the request the dispatch in slot awaits
Settles(slot) ==
  /\ dispatches[slot] # Idle
  /\ dispatches'[slot] # dispatches[slot]

\* C22: with any number of dispatches in flight for an endpoint, its
\* counter changes only when one of them records an outcome, and then by
\* exactly one up from its value at that moment (failure) or to 0 (success),
\* so it counts the failures since the last success; a failure leaves the
\* endpoint disabled when the count it makes is 10 or more, and does not
\* touch isActive below that.
C22_OutcomeRecordingIsAtomic ==
  [][\A r \in DOMAIN heap :
       /\ heap'[r].failureCount # heap[r].failureCount =>
            /\ \E slot \in Slots : Settles(slot) /\ Awaited(slot) = r
            /\ heap'[r].failureCount \in {0, heap[r].failureCount + 1}
       /\ \A slot \in Slots, result \in FetchResults :
            ( /\ dispatches[slot] # Idle
              /\ Awaited(slot) = r
              /\ Settle(slot, result) ) =>
              IF result.kind = "response" /\ result.status \in 200..299
              THEN /\ heap'[r].failureCount = 0
                   /\ heap'[r].isActive = heap[r].isActive
              ELSE /\ heap'[r].failureCount = heap[r].failureCount + 1
                   /\ heap'[r].isActive =
                        IF heap[r].failureCount + 1 >= 10
                        THEN FALSE ELSE heap[r].isActive
    ]_vars

\* the 10th failure of an endpoint has just been recorded and has disabled
\* it while another dispatch still awaits a request it sent to that endpoint
C22_Witness ==
  \E slot \in Slots :
    /\ dispatches[slot] # Idle
    /\ heap[Awaited(slot)].failureCount = 10
    /\ ~heap[Awaited(slot)].isActive
    /\ Len(out) = 2
    /\ out[2].kind = "log" /\ out[2].level = "warn"
    /\ out[2].webhookId = heap[Awaited(slot)].id

(***************************************************************************)
(* Frame of a delivery outcome (MatchSpec).                                *)
(***************************************************************************)
OutcomeFields == {"failureCount", "isActive", "lastTriggeredAt"}

\* C23: a step that records the outcome of a request leaves the registry as
\* it is, leaves every object other than the endpoint the request went to
\* as it is, and changes no field of that endpoint besides failureCount,
\* isActive and lastTriggeredAt.
C23_OutcomeTouchesOneEndpoint ==
  [][\A slot \in Slots :
       Settles(slot) =>
         /\ webhookStore' = webhookStore
         /\ \A q \in DOMAIN heap : q # Awaited(slot) => heap'[q] = heap[q]
         /\ DOMAIN heap'[Awaited(slot)]
              \subseteq DOMAIN heap[Awaited(slot)] \cup {"lastTriggeredAt"}
         /\ \A k \in DOMAIN heap[Awaited(slot)] \ OutcomeFields :
              /\ k \in DOMAIN heap'[Awaited(slot)]
              /\ heap'[Awaited(slot)][k] = heap[Awaited(slot)][k]
    ]_vars

\* a success has just been recorded on the first of two endpoints a dispatch
\* selected, and the second, of the same tenant, is as it was created
C23_Witness ==
  \E slot \in Slots :
    /\ dispatches[slot] # Idle
    /\ dispatches[slot].i = 2
    /\ Has(heap[dispatches[slot].webhooks[1]], "lastTriggeredAt")
    /\ ~Has(heap[dispatches[slot].webhooks[2]], "lastTriggeredAt")
    /\ heap[dispatches[slot].webhooks[2]].failureCount = 0
    /\ Len(out) = 1 /\ out[1].kind = "fetch"

(***************************************************************************)
(* lastTriggeredAt (MatchSpec).                                            *)
(***************************************************************************)
\* the lastTriggeredAt of an object: empty when unset
LastTriggered(w) ==
  IF Has(w, "lastTriggeredAt") THEN <<w.lastTriggeredAt>> ELSE <<>>

SuccessResults ==
  {result \in FetchResults :
     result.kind = "response" /\ result.status \in 200..299}

\* C24: an endpoint is created with lastTriggeredAt unset, and its
\* lastTriggeredAt changes only in a step that records a 2xx response to a
\* request sent to it: no failed delivery, Create, Update or Delete
\* changes it.
C24_LastTriggeredOnlyOnSuccess ==
  [][/\ \A r \in DOMAIN heap :
          LastTriggered(heap'[r]) # LastTriggered(heap[r]) =>
            \E slot \in Slots, result \in SuccessResults :
              /\ dispatches[slot] # Idle
              /\ Awaited(slot) = r
              /\ Settle(slot, result)
     /\ \A r \in DOMAIN heap' \ DOMAIN heap : LastTriggered(heap'[r]) = <<>>
    ]_vars

\* a failure has just been recorded on an endpoint whose lastTriggeredAt is
\* still the earlier instant of its one success
C24_Witness ==
  /\ now = ClockStart + 1
  /\ \E r \in Range(webhookStore) :
       /\ LastTriggered(heap[r]) = <<ToISOString(ClockStart)>>
       /\ heap[r].failureCount = 1
       /\ out # <<>>
       /\ out[1].kind = "log"
       /\ out[1].webhookId = heap[r].id

(***************************************************************************)
(* One attempt per endpoint (MatchSpec).                                   *)
(***************************************************************************)
\* the requests among the outputs of the step
RequestsSent == SelectSeq(out', LAMBDA o : o.kind = "fetch")

\* C25: a dispatch selects each endpoint once and sends one request when it
\* starts; each time a request's outcome is recorded the dispatch moves on
\* to its next endpoint, sending it one request, or ends, so no endpoint is
\* sent a second request; a 2xx response is recorded as a success, every
\* other response and every rejection of the fetch as one failure.
C25_OneAttemptNoRetry ==
  [][\A slot \in Slots :
       /\ Starts(slot) =>
            /\ \A a, b \in DOMAIN dispatches'[slot].webhooks :
                 a # b => dispatches'[slot].webhooks[a]
                            # dispatches'[slot].webhooks[b]
            /\ dispatches'[slot].i = 1
            /\ Len(RequestsSent) = 1
       /\ Settles(slot) =>
            /\ \/ /\ dispatches[slot].i = Len(dispatches[slot].webhooks)
                  /\ dispatches'[slot] = Idle
                  /\ RequestsSent = <<>>
               \/ /\ dispatches[slot].i < Len(dispatches[slot].webhooks)
                  /\ dispatches'[slot] =
                       [dispatches[slot] EXCEPT !.i = dispatches[slot].i + 1]
                  /\ Len(RequestsSent) = 1
                  /\ RequestsSent[1].url
                       = heap'[dispatches[slot].webhooks[dispatches[slot].i + 1]].url
            /\ \A result \in FetchResults :
                 Settle(slot, result) =>
                   heap'[Awaited(slot)].failureCount =
                     IF result.kind = "response" /\ result.status \in 200..299
                     THEN 0
                     ELSE heap[Awaited(slot)].failureCount + 1
    ]_vars

\* the fetch of a dispatch's only endpoint has just been rejected: the
\* failure is counted and logged, the dispatch has ended and no request has
\* been sent again
C25_Witness ==
  /\ \A slot \in Slots : dispatches[slot] = Idle
  /\ Len(out) = 1
  /\ out[1].kind = "log"
  /\ out[1].error = <<"fetch failed">>
  /\ \E r \in Range(webhookStore) :
       heap[r].id = out[1].webhookId /\ heap[r].failureCount = 1

(***************************************************************************)
(* Delete (MatchSpec).                                                     *)
(***************************************************************************)
\* the registry without its position i
Without(i) ==
  SubSeq(webhookStore, 1, i - 1)
    \o SubSeq(webhookStore, i + 1, Len(webhookStore))

\* the step answers with a list of endpoints
ListsEndpoints ==
  /\ out' # <<>>
  /\ out'[1].kind = "response"
  /\ out'[1].success
  /\ Has(out'[1].data, "webhooks")

\* C26: a Delete answered 200 removes one position of the registry, holding
\* an endpoint of the named id, and leaves every other position and every
\* object as they are; an object that is not in the registry never comes
\* back into it, a dispatch that starts selects only objects of the
\* registry, and a List shows only objects of the registry.
C26_DeletedIsGone ==
  [][/\ \A caller \in {TenantAdmin1, SuperAdmin}, id \in IdSamples :
          (DELETE(caller, [id |-> id]) /\ out'[1].status = 200) =>
            /\ heap' = heap
            /\ \E i \in DOMAIN webhookStore :
                 /\ heap[webhookStore[i]].id = id
                 /\ webhookStore' = Without(i)
     /\ \A r \in DOMAIN heap :
          r \notin Range(webhookStore) => r \notin Range(webhookStore')
     /\ \A slot \in Slots :
          Starts(slot) =>
            Range(dispatches'[slot].webhooks) \subseteq Range(webhookStore)
     /\ ListsEndpoints =>
          /\ Len(out'[1].data.webhooks) <= Len(webhookStore')
          /\ \A j \in DOMAIN out'[1].data.webhooks :
               \E r \in Range(webhookStore') :
                 Shows(out'[1].data.webhooks[j], heap'[r])
    ]_vars

\* a Delete has just removed one of two endpoints: the other is still in
\* the registry
C26_Witness ==
  /\ out # <<>>
  /\ out[1].kind = "response"
  /\ out[1].status = 200
  /\ Has(out[1].data, "message")
  /\ Len(heap) = 2
  /\ Len(webhookStore) = 1

\* C27: the url of every endpoint of the registry is a well-formed absolute
\* URL.
C27_StoredUrlsAreWellFormed ==
  \A r \in Range(webhookStore) : heap[r].url \in {GoodUrl, OtherUrl}

\* the event ids in the bodies of the requests among these outputs
EventIds(outputs) ==
  {outputs[k].body[2].id :
     k \in {j \in DOMAIN outputs : outputs[j].kind = "fetch"}}

\* C28: no two requests carry the same event id; in particular a request
\* sent in one step and a request sent in the next, to any endpoint and by
\* any dispatch, have different event ids.
C28_EventIdsAreUnique ==
  [][EventIds(out) \cap EventIds(out') = {}]_vars

(***************************************************************************)
(* The identity of an endpoint: two endpoints of two tenants, updates      *)
(* whose bodies name id, tenantId, secret and createdAt, deletions and     *)
(* deliveries that succeed and fail.                                       *)
(***************************************************************************)
IdentityPatchBodies ==
  {SetField(patch, "webhookId", MakeWebhookId(ms)) :
     patch \in {ForeignFields, [isActive |-> FALSE]},
     ms \in Clock}

IdentityNext ==
  \/ Tick
  \/ ListBy({TenantAdmin1})
  \/ CreateBy(MatchCallers, MatchCreateBodies, {171}, MaxWebhooks)
  \/ UpdateBy(MatchCallers, IdentityPatchBodies)
  \/ DeleteBy(MatchCallers, MatchDeleteQueries)
  \/ StartDispatchFor(Tenants, {"order.created"}, 1, 1)
  \/ FetchSettlesWith(MatchFetchResults)

IdentitySpec == Init /\ [][IdentityNext]_vars

IdentityFields == {"id", "tenantId", "secret", "createdAt"}

\* C29: in every step (a Create, an Update whatever its body names, a
\* Delete, the start of a dispatch, a recorded outcome) every endpoint
\* object that exists keeps its id, tenantId, secret and createdAt.
C29_IdentityIsImmutable ==
  [][\A r \in DOMAIN heap :
       /\ r \in DOMAIN heap'
       /\ \A k \in IdentityFields : heap'[r][k] = heap[r][k]
    ]_vars

\* an Update of an endpoint that had recorded a failed delivery has just
\* been answered 200 while two endpoints are registered, and the endpoint
\* of T1 still has its tenant and a secret other than the one bodies name
C29_Witness ==
  /\ Len(webhookStore) = 2
  /\ \E r \in Range(webhookStore) :
       /\ heap[r].tenantId = "T1"
       /\ heap[r].failureCount = 1
       /\ heap[r].secret # ForeignFields.secret
  /\ out # <<>> /\ out[1].kind = "response" /\ out[1].status = 200
  /\ Has(out[1].data, "secret") /\ Has(out[1].data, "failureCount")
  /\ out[1].data.failureCount = 1

(***************************************************************************)
(* The gate of the management operations (Spec).                           *)
(***************************************************************************)
\* the step is a List, Create, Update or Delete request of this caller
Manages(caller) ==
  \/ GET(caller)
  \/ \E body \in RegistryCreateBodies, bytes \in RandomBytes(SECRET_BYTES, {171}) :
       POST(caller, body, bytes)
  \/ \E body \in RegistryPatchBodies : PATCH(caller, body)
  \/ \E query \in DeleteQueries : DELETE(caller, query)

\* the step answers with this status and nothing else, returns no data and
\* leaves the registry and its endpoints as they were
Refused(status) ==
  /\ Len(out') = 1
  /\ out'[1].kind = "response"
  /\ out'[1].status = status
  /\ ~out'[1].success
  /\ ~Has(out'[1], "data")
  /\ UNCHANGED <<webhookStore, heap>>

\* C30: a List, Create, Update or Delete request of a caller without a
\* valid token is answered 401, and one of a caller whose role is neither
\* SUPER_ADMIN nor TENANT_ADMIN is answered 403; in both cases the registry
\* is unchanged and the response carries no data.
C30_OnlyAdminsManage ==
  [][\A caller \in RegistryCallers :
       Manages(caller) =>
         /\ ~caller.ok => Refused(401)
         /\ (caller.ok /\ caller.role \notin {"SUPER_ADMIN", "TENANT_ADMIN"})
              => Refused(403)
    ]_vars

\* a request has just been answered 403 while the registry holds endpoints
C30_Witness ==
  /\ Len(webhookStore) = 2
  /\ out = <<Error("FORBIDDEN", 403)>>

====
